---------------------------- MODULE Spec2Model ----------------------------
(***************************************************************************)
(* A model of src/app.py: the Slack event responder of al-botor.           *)
(*                                                                         *)
(* Strings the program inspects or builds (message texts, member names,    *)
(* user ids, canvas ids) are sequences of one-character strings, so that   *)
(* the regular expressions, strip(), lower() and the f-strings of the      *)
(* source are computed character by character.  Values that the program    *)
(* only compares or passes on (channel ids, subtypes, error codes) are     *)
(* plain strings.  The empty sequence / empty string stands for a value    *)
(* that is absent, None or "" - the source tests all of these by           *)
(* truthiness.                                                             *)
(***************************************************************************)
EXTENDS Integers, Sequences, FiniteSets, TLC

(***************************************************************************)
(* Characters                                                              *)
(***************************************************************************)
UpperLetters ==
    <<"A", "B", "C", "D", "E", "F", "G", "H", "I", "J", "K", "L", "M",
      "N", "O", "P", "Q", "R", "S", "T", "U", "V", "W", "X", "Y", "Z">>

LowerLetters ==
    <<"a", "b", "c", "d", "e", "f", "g", "h", "i", "j", "k", "l", "m",
      "n", "o", "p", "q", "r", "s", "t", "u", "v", "w", "x", "y", "z">>

Digits == {"0", "1", "2", "3", "4", "5", "6", "7", "8", "9"}

Range(s) == {s[i] : i \in DOMAIN s}

\* str.lower() on one character
LowerChar(c) ==
    IF \E i \in DOMAIN UpperLetters : UpperLetters[i] = c
    THEN LowerLetters[CHOOSE i \in DOMAIN UpperLetters : UpperLetters[i] = c]
    ELSE c

\* str.lower()
Lower(s) == [i \in DOMAIN s |-> LowerChar(s[i])]

\* \s of the re module (the whitespace str.strip() removes, too)
IsSpace(c) == c \in {" ", "\n", "\t", "\r"}

\* \w of the re module
IsWordChar(c) ==
    c \in Range(UpperLetters) \cup Range(LowerLetters) \cup Digits \cup {"_"}

\* [A-Z0-9]
IsUpperOrDigit(c) == c \in Range(UpperLetters) \cup Digits

\* str.strip(): leading and trailing whitespace removed
RECURSIVE LStrip(_)
LStrip(s) ==
    IF s # <<>> /\ IsSpace(Head(s)) THEN LStrip(Tail(s)) ELSE s

RECURSIVE RStrip(_)
RStrip(s) ==
    IF s # <<>> /\ IsSpace(s[Len(s)]) THEN RStrip(SubSeq(s, 1, Len(s) - 1))
    ELSE s

Strip(s) == RStrip(LStrip(s))

\* the literal lit (lower case) stands in s at position i, ignoring case
MatchLitIgnoreCase(s, i, lit) ==
    /\ i >= 1
    /\ i + Len(lit) - 1 <= Len(s)
    /\ \A k \in DOMAIN lit : LowerChar(s[i + k - 1]) = lit[k]

\* Python's `lit in s`
Contains(s, lit) ==
    \E i \in 1..(Len(s) + 1) :
        /\ i + Len(lit) - 1 <= Len(s)
        /\ \A k \in DOMAIN lit : s[i + k - 1] = lit[k]

\* \b just before position i (i = Len(s) + 1 is the end of the string)
WordBoundary(s, i) ==
    LET before == i > 1 /\ i - 1 <= Len(s) /\ IsWordChar(s[i - 1])
        after  == i >= 1 /\ i <= Len(s) /\ IsWordChar(s[i])
    IN  before # after

\* \s* from position i: the position after the whitespace run
RECURSIVE SkipSpaces(_, _)
SkipSpaces(s, i) ==
    IF i <= Len(s) /\ IsSpace(s[i]) THEN SkipSpaces(s, i + 1) ELSE i

(***************************************************************************)
(* The regular expressions of the module                                   *)
(***************************************************************************)
LitSave    == <<"-", "-", "s", "a", "v", "e">>
LitSign    == <<"s", "i", "g", "n">>
LitIng     == <<"i", "n", "g">>
LitOut     == <<"o", "u", "t">>
LitArea51  == <<"a", "r", "e", "a", "5", "1">>
LitHasJoined   == <<"h", "a", "s", " ", "j", "o", "i", "n", "e", "d">>
LitHasRejoined == <<"h", "a", "s", " ", "r", "e", "j", "o", "i", "n", "e", "d">>

\* SAVE_FLAG_REGEX = --save(d)?\b, IGNORECASE, tried at position i: the
\* position after the match, 0 when there is none.  (d)? is greedy: the
\* match with the d is tried first, the one without it on backtracking.
SaveFlagMatchEnd(s, i) ==
    IF ~MatchLitIgnoreCase(s, i, LitSave) THEN 0
    ELSE LET j == i + Len(LitSave)
         IN  IF j <= Len(s) /\ LowerChar(s[j]) = "d" /\ WordBoundary(s, j + 1)
             THEN j + 1
             ELSE IF WordBoundary(s, j) THEN j ELSE 0

\* SAVE_FLAG_REGEX.search(text)
SaveFlagSearch(s) == \E i \in DOMAIN s : SaveFlagMatchEnd(s, i) # 0

\* SaveFlagSub that also removes the whitespace after a flag
RECURSIVE SaveFlagSubWithSpaces(_, _)
SaveFlagSubWithSpaces(s, i) ==
    IF i > Len(s) THEN <<>>
    ELSE LET e == SaveFlagMatchEnd(s, i)
         IN  IF e # 0 THEN SaveFlagSubWithSpaces(s, SkipSpaces(s, e))
             ELSE <<s[i]>> \o SaveFlagSubWithSpaces(s, i + 1)

SaveFlagSubAndSpaces(s) == SaveFlagSubWithSpaces(s, 1)

\* SAVE_FLAG_REGEX.sub("", text): every leftmost non-overlapping match removed
RECURSIVE SaveFlagSubFrom(_, _)
SaveFlagSubFrom(s, i) ==
    IF i > Len(s) THEN <<>>
    ELSE LET e == SaveFlagMatchEnd(s, i)
         IN  IF e # 0 THEN SaveFlagSubFrom(s, e)
             ELSE <<s[i]>> \o SaveFlagSubFrom(s, i + 1)

SaveFlagSub(s) == SaveFlagSubFrom(s, 1)

\* the tail \s*-?\s*out\b of SIGN_OUT_REGEX, tried at position j.  Neither
\* \s* nor -? can give a character back: what follows each never matches
\* a space or a hyphen.
SignOutTail(s, j) ==
    LET a == SkipSpaces(s, j)
        b == IF a <= Len(s) /\ s[a] = "-" THEN a + 1 ELSE a
        c == SkipSpaces(s, b)
    IN  MatchLitIgnoreCase(s, c, LitOut) /\ WordBoundary(s, c + Len(LitOut))

\* SIGN_OUT_REGEX = \bsign(?:ing)?\s*-?\s*out\b, IGNORECASE: .search(text)
SignOutSearch(s) ==
    \E i \in DOMAIN s :
        /\ WordBoundary(s, i)
        /\ MatchLitIgnoreCase(s, i, LitSign)
        /\ \/ /\ MatchLitIgnoreCase(s, i + Len(LitSign), LitIng)
              /\ SignOutTail(s, i + Len(LitSign) + Len(LitIng))
           \/ SignOutTail(s, i + Len(LitSign))

\* AREA51_TRIGGER_REGEX = (^|\s)@?area51(\s|$), IGNORECASE: .search(text).
\* p is where @?area51 starts; $ also matches before a final newline, which
\* \s covers.
Area51Search(s) ==
    \E p \in DOMAIN s :
        /\ p = 1 \/ IsSpace(s[p - 1])
        /\ \E q \in {p, p + 1} :
              /\ q = p + 1 => s[p] = "@"
              /\ MatchLitIgnoreCase(s, q, LitArea51)
              /\ LET e == q + Len(LitArea51)
                 IN  e > Len(s) \/ IsSpace(s[e])

\* ^X[A-Z0-9]{n,}$ .match(s) for a first character in `first`: $ matches at
\* the end and before a final newline
IdShapeMatch(s, first, n) ==
    LET body == IF s # <<>> /\ s[Len(s)] = "\n"
                THEN SubSeq(s, 1, Len(s) - 1) ELSE s
    IN  /\ Len(body) >= 1 + n
        /\ body[1] \in first
        /\ \A k \in 2..Len(body) : IsUpperOrDigit(body[k])

\* CANVAS_ID_REGEX = ^F[A-Z0-9]{8,}$
CanvasIdMatch(s) == IdShapeMatch(s, {"F"}, 8)

\* SLACK_USER_ID_REGEX = ^[UW][A-Z0-9]+$
SlackUserIdMatch(s) == IdShapeMatch(s, {"U", "W"}, 1)

\* _normalize_user_key
NormalizeUserKey(value) == Lower(Strip(value))

(***************************************************************************)
(* Constants of the program                                                *)
(***************************************************************************)
WELCOME_TEXT ==
    <<"B", "h", "a", "i", " ", "a", "p", "n", "a", "d", "e", "r", " ", "j",
      "o", "n", "n", "e", " ", "k", "a", "z", " ", "k", "o", "r", "t", "e",
      " ", "c", "h", "o", "l", "e", " ", "a", "s", "h", "l", "a", "m">>

AREA51_MESSAGE_TEXT ==
    <<"\n", " ", "A", "n", "i", "k", " ", "b", "h", "a", "i", " ", "s", "o",
      "b", "a", "i", "r", "e", " ", "m", "e", "e", "t", "i", "n", "g", " ",
      "e", " ", "d", "a", "k", "s", "e", ",", " ", "S", "o", "b", "a", "i",
      " ", "a", "s", "h", "e", "n", " ", "!", "!", " ", ":", "r", "o", "c",
      "k", "e", "t", ":", " ", "\n", " ", "E", "t", "a", " ", "a", "p", "n",
      "a", "d", "e", "r", " ", "m", "e", "e", "t", "i", "n", "g", " ", "l",
      "i", "n", "k", ":", "h", "t", "t", "p", "s", ":", "/", "/", "m", "e",
      "e", "t", ".", "g", "o", "o", "g", "l", "e", ".", "c", "o", "m", "/",
      "e", "e", "a", "-", "u", "b", "x", "h", "-", "q", "f", "i", " ", ".",
      " ", "\n", " ", "J", "o", "i", "n", " ", "k", "o", "r", "e", "n", ",",
      " ", "A", "m", "i", " ", "e", "k", "t", "u", " ", "c", "h", "i", "l",
      "l", " ", "k", "o", "r", "i", " ", ":", "s", "u", "n", "g", "l", "a",
      "s", "s", "e", "s", ":", " ">>

\* the fixed part of the sign-out reply (line 292)
SignOutReplyTail ==
    <<" ", "a", "j", "k", "e", " ", "o", "n", "k", " ", "k", "o", "s", "t",
      "o", " ", "k", "o", "r", "s", "e", "n", ",", " ", "E", "i", "b", "a",
      "r", " ", "r", "e", "s", "t", " ", "k", "o", "r", "e", "n", " ", ":",
      "w", "a", "v", "e", ":", " ", ":", "z", "z", "z", ":">>

\* the fixed part of the save confirmation (line 354)
SaveConfirmTail ==
    <<" ", "B", "h", "a", "i", " ", "a", "p", "n", "a", "r", " ", "m", "e",
      "s", "s", "a", "g", "e", " ", "c", "a", "n", "v", "a", "s", "-", "e",
      " ", "s", "a", "v", "e", " ", "h", "o", "y", "e", " ", "g", "e", "s",
      "e", "!", " ", ":", "w", "h", "i", "t", "e", "_", "c", "h", "e", "c",
      "k", "_", "m", "a", "r", "k", ":">>

\* the fixed parts of the canvas entry (line 319)
EntryPrefix ==
    <<"\n", "-", " ", "S", "a", "v", "e", "d", " ", "b", "y", " ">>

EntrySeparator ==
    <<":", " ">>

UnknownUser ==
    <<"u", "n", "k", "n", "o", "w", "n", " ", "u", "s", "e", "r">>

\* the user id the sign-out reply addresses as apu (line 287)
ApuUserId ==
    <<"D", "0", "7", "A", "V", "S", "5", "K", "A", "P", "K">>

Apu ==
    <<"a", "p", "u">>

Bhai ==
    <<"b", "h", "a", "i">>


AREA51_MEMBER_IDS ==
    << <<"R", "u", "m", "m", "a", "n">>,
       <<"J", "o", "y", " ", "A", "d", "h", "i", "k", "a", "r", "y">>,
       <<"I", "s", "h", "m", "o", "t", "h", " ", "U", "r", "a", " ", "N", "u", "r", "i">>,
       <<"I", "n", "t", "i", "s", "h", "a", "r", " ", "I", "s", "h", "m", "a", "m">> >>

\* retryable_errors of _post_welcome_with_retry
retryable_errors ==
    {"not_in_channel", "channel_not_found", "internal_error",
     "request_timeout", "ratelimited"}

\* max_attempts of _post_welcome_with_retry
max_attempts == 4

\* the error codes after which _get_or_create_channel_canvas_id reads the
\* channel's metadata
AlreadyExistsErrors ==
    {"already_exists", "already_in_channel",
     "free_team_canvas_tab_already_exists"}

(***************************************************************************)
(* The events the platform delivers                                        *)
(***************************************************************************)
\* the responder's own user id and bot id, as auth_test reports them
OwnUserId ==
    <<"U", "B", "O", "T">>

OwnBotId ==
    <<"B", "B", "O", "T">>

\* another member of the workspace
OtherUserId ==
    <<"U", "7">>

TextPlain ==
    <<"h", "i">>

TextEmpty ==
    <<>>

TextSignOut ==
    <<"S", "i", "g", "n", " ", "-", " ", "O", "u", "t">>

TextSigningOut ==
    <<"o", "k", " ", "s", "i", "g", "n", "i", "n", "g", "-", "o", "u", "t",
      " ", "n", "o", "w">>

TextArea51 ==
    <<"@", "a", "r", "e", "a", "5", "1">>

TextSave ==
    <<"p", "l", "e", "a", "s", "e", " ", "-", "-", "s", "a", "v", "e", " ",
      "t", "h", "i", "s", " ", "n", "o", "t", "e">>

TextSavedOnly ==
    <<"-", "-", "s", "a", "v", "e", "d">>

TextFlagsOnly ==
    <<" ", "-", "-", "s", "a", "v", "e", " ", "-", "-", "S", "A", "V", "E",
      "D", "\n">>

TextSaves ==
    <<"-", "-", "s", "a", "v", "e", "s">>

TextJoined ==
    <<"<", "@", "U", "B", "O", "T", ">", " ", "h", "a", "s", " ", "j", "o",
      "i", "n", "e", "d", " ", "t", "h", "e", " ", "c", "h", "a", "n", "n",
      "e", "l">>

TextRejoinedSignOut ==
    <<"h", "a", "s", " ", "r", "e", "j", "o", "i", "n", "e", "d", ",", " ",
      "s", "i", "g", "n", " ", "o", "u", "t">>

TextJoinedArea51 ==
    <<"h", "a", "s", " ", "j", "o", "i", "n", "e", "d", " ", "a", "r", "e",
      "a", "5", "1">>

TextSignOutArea51Save ==
    <<"s", "i", "g", "n", " ", "o", "u", "t", " ", "a", "r", "e", "a", "5",
      "1", " ", "-", "-", "s", "a", "v", "e", " ", "x">>

TextArea51Save ==
    <<"c", "a", "l", "l", " ", "a", "r", "e", "a", "5", "1", " ", "-", "-",
      "s", "a", "v", "e", " ", "i", "t">>

Texts ==
    {TextPlain, TextEmpty, TextSignOut, TextSigningOut,
     TextArea51, TextSave, TextSavedOnly, TextFlagsOnly,
     TextSaves, TextJoined, TextRejoinedSignOut, TextSignOutArea51Save,
     TextArea51Save}


Subtypes == {"", "bot_message", "channel_join", "group_join"}

Channels == {"", "C1"}

Users == {<<>>, OwnUserId, OtherUserId, ApuUserId}

BotIds == {<<>>, OwnBotId}

\* the event of a "message" delivery: the fields handle_message_events reads
\* with .get (a missing field is the empty value); ts is always there
MessageEvents ==
    [type : {"message"}, subtype : Subtypes, text : Texts,
     channel : Channels, user : Users, bot_id : BotIds]

\* the event of a "member_joined_channel" delivery
MemberJoinedEvents ==
    [type : {"member_joined_channel"}, subtype : {""}, text : {<<>>},
     channel : Channels, user : {<<>>, OwnUserId, OtherUserId},
     bot_id : {<<>>}]

NoEvent ==
    [type |-> "", subtype |-> "", text |-> <<>>, channel |-> "",
     user |-> <<>>, bot_id |-> <<>>]

(***************************************************************************)
(* The workspace directory users_list pages through, and the reference     *)
(* lists the resolver is run over                                          *)
(***************************************************************************)
Member(id, name, display_name, real_name, deleted, is_bot, is_app_user) ==
    [id |-> id, name |-> name,
     display_name |-> display_name, display_name_normalized |-> display_name,
     real_name |-> real_name, real_name_normalized |-> real_name,
     deleted |-> deleted, is_bot |-> is_bot, is_app_user |-> is_app_user]

MemberRumman ==
    Member(<<"U", "1">>, <<"r", "u", "m", "m", "a", "n">>,
           <<"R", "u", "m", "m", "a", "n", " ">>,
           <<"M", "e", "h", "r", "a", "z", " ", "R", "u", "m", "m", "a", "n">>,
           FALSE, FALSE, FALSE)

MemberJoy ==
    Member(<<"U", "2">>, <<"j", "o", "y">>,
           <<"J", "o", "y">>,
           <<"J", "o", "y", " ", "A", "d", "h", "i", "k", "a", "r", "y">>,
           FALSE, FALSE, FALSE)

MemberRummanToo ==
    Member(<<"U", "3">>, <<"m", "r">>,
           <<"r", "u", "m", "m", "a", "n">>,
           <<"R", "u", "m", "m", "a", "n">>,
           FALSE, FALSE, FALSE)

MemberBot ==
    Member(<<"U", "4">>, <<"i", "s", "h", "m", "a", "m">>,
           <<"I", "n", "t", "i", "s", "h", "a", "r", " ", "I", "s", "h", "m", "a", "m">>,
           <<>>,
           FALSE, TRUE, FALSE)

MemberDeleted ==
    Member(<<"U", "5">>, <<"n", "u", "r", "i">>,
           <<>>,
           <<"I", "s", "h", "m", "o", "t", "h", " ", "U", "r", "a", " ", "N", "u", "r", "i">>,
           TRUE, FALSE, FALSE)

\* a directory is the sequence of its members, in the order users_list
\* pages through them
DirectoryTwoPages ==
    <<MemberRumman, MemberBot, MemberRummanToo, MemberJoy>>

DirectoryRenamed == <<MemberRummanToo, MemberDeleted>>

DirectoryEmpty == <<>>

\* the page size of users_list (limit=200 in the source), scaled down
PageLimit == 2

\* users_list(limit, cursor): the page that starts at the cursor (the
\* first page without one) and the cursor of the next page, 0 for none
UsersListPage(members, cursor) ==
    LET first == IF cursor = 0 THEN 1 ELSE cursor
        last  == IF first + PageLimit - 1 < Len(members)
                 THEN first + PageLimit - 1 ELSE Len(members)
    IN  [members |-> SubSeq(members, first, last),
         next_cursor |-> IF last < Len(members) THEN last + 1 ELSE 0]

Directories == {DirectoryTwoPages, DirectoryRenamed, DirectoryEmpty}

RefsIdAndName ==
    << <<"U", "1">>,
       <<"R", "u", "m", "m", "a", "n">> >>

RefsMixed ==
    << <<" ", "J", "O", "Y", " ">>,
       <<"U", "2">>,
       <<"r", "u", "m", "m", "a", "n">>,
       <<>>,
       <<"R", "u", "m", "m", "a", "n">> >>

RefsLiteral ==
    << <<"W", "9">>,
       <<"U", "1">>,
       <<"W", "9">> >>

\* a name before a literal id of another member, and a second name of the
\* first member
RefsNamesAndId ==
    << <<"M", "e", "h", "r", "a", "z", " ", "R", "u", "m", "m", "a", "n">>,
       <<"U", "2">>,
       <<"R", "u", "m", "m", "a", "n">> >>

RefLists ==
    {AREA51_MEMBER_IDS, RefsIdAndName, RefsMixed, RefsLiteral, RefsNamesAndId}


(***************************************************************************)
(* What the platform answers                                               *)
(***************************************************************************)
RetryAfterSeconds == <<"3", "0">>   \* a Retry-After header, as sent

Ok == [ok |-> TRUE, error |-> "", retry_after |-> <<>>]

Failure(code, retry_after) ==
    [ok |-> FALSE, error |-> code, retry_after |-> retry_after]

\* the retryable codes a welcome post is answered with: each of the five
\* for a member_joined_channel event, whose handler ends with the welcome;
\* three of them for a join system message, whose handler may go on into
\* the other flows
WelcomeFailureCodes(ev) ==
    IF ev.type = "member_joined_channel" THEN retryable_errors
    ELSE {"ratelimited", "internal_error", "not_in_channel"}

\* chat_postMessage of the welcome text: success, a failure with a
\* retryable code, a rate limit that names a wait, and a failure with a
\* code that is not retryable
WelcomePostResponses(ev) ==
    {Ok, Failure("ratelimited", RetryAfterSeconds), Failure("invalid_auth", <<>>)}
    \cup {Failure(code, <<>>) : code \in WelcomeFailureCodes(ev)}

\* any other call: success or a SlackApiError
CallResponses == {Ok, Failure("channel_not_found", <<>>)}

\* auth_test: the responder's identity (bot_id may be missing), or an error
AuthTestResponses ==
    {[ok |-> TRUE, error |-> "", user_id |-> OwnUserId, bot_id |-> OwnBotId],
     [ok |-> TRUE, error |-> "", user_id |-> OwnUserId, bot_id |-> <<>>],
     [ok |-> FALSE, error |-> "invalid_auth", user_id |-> <<>>, bot_id |-> <<>>]}

(***************************************************************************)
(* State                                                                   *)
(***************************************************************************)
VARIABLES
    pc,          \* where the handler of the current event stands
    event,       \* the event being handled
    trace,       \* the outbound calls (and sleeps) of the current event
    frame,       \* the local variables of the functions on the call chain
    cache,       \* AREA51_USER_ID_CACHE
    refs,        \* AREA51_MEMBER_IDS, the configured references
    directory,   \* the workspace directory, as the platform holds it
    resolutions, \* what the last two calls of the resolver did
    join,        \* a join of the responder: the events the platform still
                 \* has to deliver for it, and what their handlers did
    threads      \* the resolver calls of handlers that run side by side

vars ==
    <<pc, event, trace, frame, cache, refs, directory, resolutions, join,
      threads>>

\* a dict: a function on the set of its keys
EmptyDict == [k \in {} |-> <<>>]

\* dict.get(key): None (here the empty value) for a missing key
Get(dict, key) == IF key \in DOMAIN dict THEN dict[key] ELSE <<>>

\* dict[key] = value
Put(dict, key, value) ==
    [k \in DOMAIN dict \cup {key} |-> IF k = key THEN value ELSE dict[k]]

InitFrame ==
    [attempt |-> 0, welcomed |-> "unset",
     unresolved_keys |-> <<>>, resolved_user_ids |-> <<>>,
     user_index |-> EmptyDict, cursor |-> 0, member_ids |-> <<>>,
     saved_by |-> <<>>, canvas_id |-> <<>>]

(***************************************************************************)
(* The entries of the trace                                                *)
(***************************************************************************)
AuthTestCall(resp) ==
    [api |-> "auth_test", site |-> "welcome", result |-> resp.error,
     user_id |-> resp.user_id, bot_id |-> resp.bot_id]

PostMessageCall(site, channel, text, resp) ==
    [api |-> "chat_postMessage", site |-> site, channel |-> channel,
     text |-> text, result |-> resp.error, retry_after |-> resp.retry_after]

SleepCall(seconds) == [api |-> "sleep", site |-> "welcome", seconds |-> seconds]

(***************************************************************************)
(* handle_message_events: the triggers, in the order of the code           *)
(***************************************************************************)
\* _is_join_system_message
IsJoinSystemMessage(ev) ==
    /\ ev.subtype \in {"channel_join", "group_join"}
    /\ \/ Contains(Lower(ev.text), LitHasJoined)
       \/ Contains(Lower(ev.text), LitHasRejoined)

\* Dispatch without the test of the subtype (lines 282-283 left out)
DispatchWithoutBotCheck(ev) ==
    IF ev.channel # "" /\ SignOutSearch(ev.text) THEN "post_sign_out"
    ELSE IF ev.channel # "" /\ Area51Search(ev.text) THEN "resolve"
    ELSE IF ev.channel = "" \/ ~SaveFlagSearch(ev.text) THEN "done"
    ELSE IF Strip(SaveFlagSub(ev.text)) = <<>> THEN "done"
    ELSE "users_info"

\* Dispatch with the mention trigger tested before the sign-out phrase
DispatchMentionFirst(ev) ==
    IF ev.subtype = "bot_message" THEN "done"
    ELSE IF ev.channel # "" /\ Area51Search(ev.text) THEN "resolve"
    ELSE IF ev.channel # "" /\ SignOutSearch(ev.text) THEN "post_sign_out"
    ELSE IF ev.channel = "" \/ ~SaveFlagSearch(ev.text) THEN "done"
    ELSE IF Strip(SaveFlagSub(ev.text)) = <<>> THEN "done"
    ELSE "users_info"

\* Dispatch without the test of the stripped text (lines 315-316 left out)
DispatchWithoutEmptyCheck(ev) ==
    IF ev.subtype = "bot_message" THEN "done"
    ELSE IF ev.channel # "" /\ SignOutSearch(ev.text) THEN "post_sign_out"
    ELSE IF ev.channel # "" /\ Area51Search(ev.text) THEN "resolve"
    ELSE IF ev.channel = "" \/ ~SaveFlagSearch(ev.text) THEN "done"
    ELSE "users_info"

\* lines 281-316: where the handler goes after the join check
Dispatch(ev) ==
    IF ev.subtype = "bot_message" THEN "done"
    ELSE IF ev.channel # "" /\ SignOutSearch(ev.text) THEN "post_sign_out"
    ELSE IF ev.channel # "" /\ Area51Search(ev.text) THEN "resolve"
    ELSE IF ev.channel = "" \/ ~SaveFlagSearch(ev.text) THEN "done"
    ELSE IF Strip(SaveFlagSub(ev.text)) = <<>> THEN "done"
    ELSE "users_info"

\* lines 266 and 277-279: what the caller does with the result of
\* _welcome_if_bot_join_event
AfterWelcome(ev, welcomed) ==
    IF ev.type = "member_joined_channel" \/ welcomed THEN "done"
    ELSE Dispatch(ev)

\* where a handler starts
Start(ev) ==
    IF ev.type = "member_joined_channel" \/ IsJoinSystemMessage(ev)
    THEN "auth_test"
    ELSE Dispatch(ev)

\* the platform delivers an event: handle_member_joined_channel_events or
\* handle_message_events starts on it
Receive(ev) ==
    /\ pc = "idle"
    /\ event' = ev
    /\ trace' = <<>>
    /\ frame' = InitFrame
    /\ pc' = Start(ev)
    /\ UNCHANGED <<cache, refs, join, threads, directory, resolutions>>

(***************************************************************************)
(* _welcome_if_bot_join_event, _get_bot_member_ids                         *)
(***************************************************************************)
\* event.get("user") or event.get("bot_id")
JoinedMemberId(ev) == IF ev.user # <<>> THEN ev.user ELSE ev.bot_id

\* IsBotJoin without the comparison with the responder's ids
IsBotJoinAnyMember(ev, bot_user_id, bot_id) ==
    LET bot_member_ids == {bot_user_id, bot_id} \ {<<>>}
    IN  /\ ev.channel # ""
        /\ JoinedMemberId(ev) # <<>>
        /\ bot_member_ids # {}

\* lines 244-249: the event is a join of the responder itself
IsBotJoin(ev, bot_user_id, bot_id) ==
    LET bot_member_ids == {bot_user_id, bot_id} \ {<<>>}
    IN  /\ ev.channel # ""
        /\ JoinedMemberId(ev) # <<>>
        /\ bot_member_ids # {}
        /\ JoinedMemberId(ev) \in bot_member_ids

\* auth_test is called first; then the checks of lines 244-249
AuthTest ==
    /\ pc = "auth_test"
    /\ \E resp \in AuthTestResponses :
          /\ trace' = Append(trace, AuthTestCall(resp))
          /\ IF IsBotJoin(event, resp.user_id, resp.bot_id)
             THEN /\ pc' = "post_welcome"
                  /\ frame' = [frame EXCEPT !.attempt = 1]
             ELSE /\ pc' = AfterWelcome(event, FALSE)
                  /\ frame' = [frame EXCEPT !.welcomed = "false"]
    /\ UNCHANGED <<event, cache, refs, join, threads, directory, resolutions>>

(***************************************************************************)
(* _post_welcome_with_retry                                                *)
(***************************************************************************)
DigitValue(c) ==
    CASE c = "0" -> 0 [] c = "1" -> 1 [] c = "2" -> 2 [] c = "3" -> 3
      [] c = "4" -> 4 [] c = "5" -> 5 [] c = "6" -> 6 [] c = "7" -> 7
      [] c = "8" -> 8 [] c = "9" -> 9

\* float() of a string of digits
RECURSIVE ParseSeconds(_)
ParseSeconds(s) ==
    IF s = <<>> THEN 0
    ELSE 10 * ParseSeconds(SubSeq(s, 1, Len(s) - 1)) + DigitValue(s[Len(s)])

\* SleepSeconds with an exponential backoff in place of the linear one
SleepSecondsDoubling(retry_after, attempt) ==
    IF retry_after # <<>> THEN ParseSeconds(retry_after)
    ELSE 2 ^ (attempt - 1)

\* line 224
SleepSeconds(retry_after, attempt) ==
    IF retry_after # <<>> THEN ParseSeconds(retry_after) ELSE attempt

\* GivesUp without the test of the error code
GivesUpWhenExhausted(error, attempt) ==
    attempt = max_attempts

\* line 217
GivesUp(error, attempt) ==
    error \notin retryable_errors \/ attempt = max_attempts

\* one pass of the loop body: the post, and on a failure either the return
\* of False or the sleep before the next attempt
PostWelcome ==
    /\ pc = "post_welcome"
    /\ \E resp \in WelcomePostResponses(event) :
          LET call == PostMessageCall("welcome", event.channel,
                                      WELCOME_TEXT, resp)
          IN  IF resp.ok
              THEN /\ trace' = Append(trace, call)
                   /\ frame' = [frame EXCEPT !.welcomed = "true"]
                   /\ pc' = AfterWelcome(event, TRUE)
              ELSE IF GivesUp(resp.error, frame.attempt)
              THEN /\ trace' = Append(trace, call)
                   /\ frame' = [frame EXCEPT !.welcomed = "false"]
                   /\ pc' = AfterWelcome(event, FALSE)
              ELSE /\ trace' = trace \o
                         <<call, SleepCall(SleepSeconds(resp.retry_after,
                                                        frame.attempt))>>
                   /\ frame' = [frame EXCEPT !.attempt = @ + 1]
                   /\ pc' = "post_welcome"
    /\ UNCHANGED <<event, cache, refs, join, threads, directory, resolutions>>

(***************************************************************************)
(* The sign-out reply (lines 285-296)                                      *)
(***************************************************************************)
\* f"<@{user_id}>"
Mention(user_id) == <<"<", "@">> \o user_id \o <<">">>

SignOutReplyText(user_id) ==
    LET mention   == IF user_id # <<>> THEN Mention(user_id) ELSE <<>>
        honorific == IF user_id = ApuUserId THEN Apu ELSE Bhai
        greeting_target == Strip(mention \o <<" ">> \o honorific)
    IN  greeting_target \o SignOutReplyTail

PostSignOut ==
    /\ pc = "post_sign_out"
    /\ \E resp \in CallResponses :
          trace' = Append(trace, PostMessageCall("sign_out", event.channel,
                                     SignOutReplyText(event.user), resp))
    /\ pc' = "done"
    /\ UNCHANGED
          <<event, frame, cache, refs, join, threads, directory, resolutions>>

(***************************************************************************)
(* The save flow (lines 311-357)                                           *)
(***************************************************************************)
DisplayNameD == <<"D">>

ValidCanvasId == <<"F", "0", "4", "A", "B", "C", "1", "2", "3">>

MalformedCanvasId == <<"F", "1", "2", "3">>

UserInfo(name, display_name, real_name) ==
    [ok |-> TRUE, error |-> "", name |-> name,
     display_name |-> display_name, real_name |-> real_name]

\* users_info: a profile with a display name, one with a real name only,
\* one with neither, or an error
UsersInfoResponses ==
    {UserInfo(<<"d", "e", "e">>, DisplayNameD, <<"D", "e", "e">>),
     UserInfo(<<>>, <<>>, <<"D", "e", "e">>),
     UserInfo(<<>>, <<>>, <<>>),
     [ok |-> FALSE, error |-> "user_not_found", name |-> <<>>,
      display_name |-> <<>>, real_name |-> <<>>]}

\* the payload _extract_canvas_id reads
Payload(canvas_id, id, file_id, nested_id, nested_file_id) ==
    [canvas_id |-> canvas_id, id |-> id, file_id |-> file_id,
     canvas |-> [id |-> nested_id, file_id |-> nested_file_id]]

NoPayload == Payload(<<>>, <<>>, <<>>, <<>>, <<>>)

\* conversations_canvases_create: an id in one of the places it may stand,
\* a malformed id, no id, or an error
CanvasesCreateResponses ==
    {[ok |-> TRUE, error |-> "", payload |-> pl] :
        pl \in {Payload(ValidCanvasId, <<>>, <<>>, <<>>, <<>>),
                Payload(<<>>, <<>>, <<>>, <<>>, ValidCanvasId),
                Payload(<<>>, MalformedCanvasId, ValidCanvasId, <<>>, <<>>),
                NoPayload}}
    \cup {[ok |-> FALSE, error |-> code, payload |-> NoPayload] :
        code \in AlreadyExistsErrors \cup {"canvas_creation_failed"}}

\* conversations_info: channel.properties.canvas with an id, with a
\* malformed id, without one, or an error
ConversationsInfoResponses ==
    {[ok |-> TRUE, error |-> "", payload |-> pl] :
        pl \in {Payload(<<>>, <<>>, ValidCanvasId, <<>>, <<>>),
                Payload(<<>>, MalformedCanvasId, <<>>, <<>>, <<>>),
                NoPayload}}
    \cup {[ok |-> FALSE, error |-> "missing_scope", payload |-> NoPayload]}

UsersInfoCall(user, resp) ==
    [api |-> "users_info", site |-> "save", user |-> user,
     result |-> resp.error]

CanvasesCreateCall(channel, resp) ==
    [api |-> "conversations_canvases_create", site |-> "save",
     channel |-> channel, result |-> resp.error, payload |-> resp.payload]

ConversationsInfoCall(channel, resp) ==
    [api |-> "conversations_info", site |-> "save", channel |-> channel,
     result |-> resp.error, payload |-> resp.payload]

CanvasesEditCall(canvas_id, markdown, resp) ==
    [api |-> "canvases_edit", site |-> "save", canvas_id |-> canvas_id,
     markdown |-> markdown, result |-> resp.error]

ReactionsAddCall(channel, resp) ==
    [api |-> "reactions_add", site |-> "save", channel |-> channel,
     result |-> resp.error]

\* a or b of Python, on strings
OrElse(a, b) == IF a # <<>> THEN a ELSE b

\* _extract_canvas_id
ExtractCanvasId(payload) ==
    OrElse(payload.canvas_id,
      OrElse(OrElse(payload.id, payload.file_id),
        OrElse(payload.canvas.id, payload.canvas.file_id)))

\* lines 91-97 of _get_user_display_name
DisplayName(resp, user_id) ==
    IF resp.ok
    THEN OrElse(resp.display_name,
           OrElse(resp.real_name, OrElse(resp.name, user_id)))
    ELSE Mention(user_id)

\* line 314
SavedText(text) == Strip(SaveFlagSub(text))

\* line 319
CanvasEntry(saved_by, saved_text) ==
    EntryPrefix \o saved_by \o EntrySeparator \o saved_text

\* _get_user_display_name
UsersInfo ==
    /\ pc = "users_info"
    /\ IF event.user = <<>>
       THEN /\ frame' = [frame EXCEPT !.saved_by = UnknownUser]
            /\ trace' = trace
       ELSE \E resp \in UsersInfoResponses :
              /\ frame' = [frame EXCEPT
                             !.saved_by = DisplayName(resp, event.user)]
              /\ trace' = Append(trace, UsersInfoCall(event.user, resp))
    /\ pc' = "canvases_create"
    /\ UNCHANGED <<event, cache, refs, join, threads, directory, resolutions>>

\* UsableCanvasId without the test of the id's shape
UsableCanvasIdOfAnyShape(canvas_id) == canvas_id # <<>>

\* line 323: the id the handler goes on with
UsableCanvasId(canvas_id) == canvas_id # <<>> /\ CanvasIdMatch(canvas_id)

\* CanvasesCreate without the fallback to the channel metadata
CanvasesCreateWithoutFallback ==
    /\ pc = "canvases_create"
    /\ \E resp \in CanvasesCreateResponses :
          LET created_canvas_id == ExtractCanvasId(resp.payload)
          IN  /\ trace' = Append(trace,
                                 CanvasesCreateCall(event.channel, resp))
              /\ IF resp.ok /\ UsableCanvasId(created_canvas_id)
                 THEN /\ frame' = [frame EXCEPT
                                     !.canvas_id = created_canvas_id]
                      /\ pc' = "canvases_edit"
                 ELSE /\ frame' = frame
                      /\ pc' = "done"
    /\ UNCHANGED <<event, cache, refs, join, threads, directory, resolutions>>

\* lines 54-67 of _get_or_create_channel_canvas_id, and what the handler
\* does with a returned None (line 325) or a raised error (line 342)
CanvasesCreate ==
    /\ pc = "canvases_create"
    /\ \E resp \in CanvasesCreateResponses :
          LET created_canvas_id == ExtractCanvasId(resp.payload)
          IN  /\ trace' = Append(trace,
                                 CanvasesCreateCall(event.channel, resp))
              /\ IF resp.ok
                 THEN IF UsableCanvasId(created_canvas_id)
                      THEN /\ frame' = [frame EXCEPT
                                          !.canvas_id = created_canvas_id]
                           /\ pc' = "canvases_edit"
                      ELSE /\ frame' = frame
                           /\ pc' = "done"
                 ELSE /\ frame' = frame
                      /\ pc' = IF resp.error \in AlreadyExistsErrors
                               THEN "conversations_info" ELSE "done"
    /\ UNCHANGED <<event, cache, refs, join, threads, directory, resolutions>>

\* lines 69-82
ConversationsInfo ==
    /\ pc = "conversations_info"
    /\ \E resp \in ConversationsInfoResponses :
          LET existing_canvas_id == ExtractCanvasId(resp.payload)
          IN  /\ trace' = Append(trace,
                                 ConversationsInfoCall(event.channel, resp))
              /\ IF resp.ok /\ UsableCanvasId(existing_canvas_id)
                 THEN /\ frame' = [frame EXCEPT
                                     !.canvas_id = existing_canvas_id]
                      /\ pc' = "canvases_edit"
                 ELSE /\ frame' = frame
                      /\ pc' = "done"
    /\ UNCHANGED <<event, cache, refs, join, threads, directory, resolutions>>

\* CanvasesEdit with the failure of the edit ignored
CanvasesEditIgnoringFailure ==
    /\ pc = "canvases_edit"
    /\ \E resp \in CallResponses :
          /\ trace' = Append(trace,
                CanvasesEditCall(frame.canvas_id,
                    CanvasEntry(frame.saved_by, SavedText(event.text)), resp))
          /\ pc' = "reactions_add"
    /\ UNCHANGED
          <<event, frame, cache, refs, join, threads, directory, resolutions>>

\* lines 328-342
CanvasesEdit ==
    /\ pc = "canvases_edit"
    /\ \E resp \in CallResponses :
          /\ trace' = Append(trace,
                CanvasesEditCall(frame.canvas_id,
                    CanvasEntry(frame.saved_by, SavedText(event.text)), resp))
          /\ pc' = IF resp.ok THEN "reactions_add" ELSE "done"
    /\ UNCHANGED
          <<event, frame, cache, refs, join, threads, directory, resolutions>>

\* ReactionsAdd with the confirmation posted whatever the reaction's outcome
ReactionsAddThenConfirm ==
    /\ pc = "reactions_add"
    /\ \E resp \in CallResponses :
          /\ trace' = Append(trace, ReactionsAddCall(event.channel, resp))
          /\ pc' = "post_confirm"
    /\ UNCHANGED
          <<event, frame, cache, refs, join, threads, directory, resolutions>>

\* lines 346-350
ReactionsAdd ==
    /\ pc = "reactions_add"
    /\ \E resp \in CallResponses :
          /\ trace' = Append(trace, ReactionsAddCall(event.channel, resp))
          /\ pc' = IF resp.ok THEN "post_confirm" ELSE "done"
    /\ UNCHANGED
          <<event, frame, cache, refs, join, threads, directory, resolutions>>

\* line 354
SaveConfirmText(user_id) ==
    (IF user_id # <<>> THEN Mention(user_id) \o <<" ">> ELSE <<>>)
        \o SaveConfirmTail

\* lines 351-357
PostConfirm ==
    /\ pc = "post_confirm"
    /\ \E resp \in CallResponses :
          trace' = Append(trace, PostMessageCall("save", event.channel,
                                     SaveConfirmText(event.user), resp))
    /\ pc' = "done"
    /\ UNCHANGED
          <<event, frame, cache, refs, join, threads, directory, resolutions>>

(***************************************************************************)
(* _build_workspace_user_index                                             *)
(***************************************************************************)
\* lines 130-137
MemberKeys(member) ==
    <<member.id, member.name, member.display_name,
      member.display_name_normalized, member.real_name,
      member.real_name_normalized>>

\* lines 139-142, for the keys from position i on
RECURSIVE IndexKeys(_, _, _, _)
IndexKeys(user_index, keys, user_id, i) ==
    IF i > Len(keys) THEN user_index
    ELSE LET normalized == NormalizeUserKey(keys[i])
         IN  IndexKeys(IF normalized # <<>> /\ normalized \notin DOMAIN user_index
                       THEN Put(user_index, normalized, user_id)
                       ELSE user_index,
                       keys, user_id, i + 1)

\* line 125
IsSkippedMember(member) ==
    member.deleted \/ member.is_bot \/ member.is_app_user

\* lines 124-142, for the members of a page from position i on
RECURSIVE IndexMembers(_, _, _)
IndexMembers(user_index, members, i) ==
    IF i > Len(members) THEN user_index
    ELSE IndexMembers(IF IsSkippedMember(members[i]) THEN user_index
                      ELSE IndexKeys(user_index, MemberKeys(members[i]),
                                     members[i].id, 1),
                      members, i + 1)

UsersListCall(cursor, resp) ==
    [api |-> "users_list", site |-> "area51", cursor |-> cursor,
     result |-> resp.error]

(***************************************************************************)
(* _resolve_area51_member_ids                                              *)
(***************************************************************************)
\* DictFromKeys that removes nothing
DictFromKeysKeepingAll(seq) == seq

\* list(dict.fromkeys(seq)): the first occurrence of each element, in order
RECURSIVE DictFromKeys(_)
DictFromKeys(seq) ==
    IF seq = <<>> THEN <<>>
    ELSE LET front == DictFromKeys(SubSeq(seq, 1, Len(seq) - 1))
             last  == seq[Len(seq)]
         IN  IF last \in Range(front) THEN front ELSE Append(front, last)

\* Partition that never reads the cache
RECURSIVE PartitionIgnoringCache(_, _, _, _)
PartitionIgnoringCache(member_refs, dict, i, acc) ==
    IF i > Len(member_refs) THEN acc
    ELSE LET member_ref     == member_refs[i]
             normalized_ref == NormalizeUserKey(member_ref)
         IN  PartitionIgnoringCache(member_refs, dict, i + 1,
               IF normalized_ref = <<>> THEN acc
               ELSE IF SlackUserIdMatch(member_ref)
               THEN [acc EXCEPT !.resolved_user_ids = Append(@, member_ref)]
               ELSE [acc EXCEPT !.unresolved_keys = Append(@, normalized_ref)])

\* Partition that uses a cached id and still puts the name up for the scan
RECURSIVE PartitionRefreshingCache(_, _, _, _)
PartitionRefreshingCache(member_refs, dict, i, acc) ==
    IF i > Len(member_refs) THEN acc
    ELSE LET member_ref     == member_refs[i]
             normalized_ref == NormalizeUserKey(member_ref)
             cached_user_id == Get(dict, normalized_ref)
         IN  PartitionRefreshingCache(member_refs, dict, i + 1,
               IF normalized_ref = <<>> THEN acc
               ELSE IF SlackUserIdMatch(member_ref)
               THEN [acc EXCEPT !.resolved_user_ids = Append(@, member_ref)]
               ELSE IF cached_user_id # <<>>
               THEN [acc EXCEPT !.resolved_user_ids = Append(@, cached_user_id),
                                !.unresolved_keys = Append(@, normalized_ref)]
               ELSE [acc EXCEPT !.unresolved_keys = Append(@, normalized_ref)])

\* lines 158-171, for the references from position i on: the ids resolved
\* so far and the keys left for the directory scan
RECURSIVE Partition(_, _, _, _)
Partition(member_refs, dict, i, acc) ==
    IF i > Len(member_refs) THEN acc
    ELSE LET member_ref     == member_refs[i]
             normalized_ref == NormalizeUserKey(member_ref)
             cached_user_id == Get(dict, normalized_ref)
         IN  Partition(member_refs, dict, i + 1,
               IF normalized_ref = <<>> THEN acc
               ELSE IF SlackUserIdMatch(member_ref)
               THEN [acc EXCEPT !.resolved_user_ids = Append(@, member_ref)]
               ELSE IF cached_user_id # <<>>
               THEN [acc EXCEPT !.resolved_user_ids = Append(@, cached_user_id)]
               ELSE [acc EXCEPT !.unresolved_keys = Append(@, normalized_ref)])

\* lines 175-181, for the unresolved keys from position i on: the cache and
\* the resolved ids after the lookups
RECURSIVE Lookup(_, _, _, _)
Lookup(unresolved_keys, user_index, i, acc) ==
    IF i > Len(unresolved_keys) THEN acc
    ELSE LET unresolved_key   == unresolved_keys[i]
             resolved_user_id == Get(user_index, unresolved_key)
         IN  Lookup(unresolved_keys, user_index, i + 1,
               IF resolved_user_id # <<>>
               THEN [cache |-> Put(acc.cache, unresolved_key, resolved_user_id),
                     resolved_user_ids |->
                         Append(acc.resolved_user_ids, resolved_user_id)]
               ELSE acc)

\* the configured names (not literal ids) that have no entry in the cache
UncachedNames(member_refs, dict) ==
    {NormalizeUserKey(r) : r \in
        {x \in Range(member_refs) :
            /\ NormalizeUserKey(x) # <<>>
            /\ ~SlackUserIdMatch(x)
            /\ Get(dict, NormalizeUserKey(x)) = <<>>}}

UsersListCalls(tr) == SelectSeq(tr, LAMBDA c : c.api = "users_list")

\* the record kept of a finished call of the resolver
Resolution(tr, cache_before, cache_after) ==
    [scans |-> IF UsersListCalls(tr) = <<>> THEN 0 ELSE 1,
     uncached_before |-> UncachedNames(refs, cache_before) # {},
     uncached_after |-> UncachedNames(refs, cache_after) # {}]

LastTwo(seq) == IF Len(seq) > 2 THEN Tail(seq) ELSE seq

\* lines 173-184 and 301-304: the lookups against the index the scan
\* built, the cache writes, the return of the resolver and the handler's
\* test of the returned list
ResolveReturn(tr, unresolved_keys, resolved_user_ids, user_index) ==
    LET after == Lookup(unresolved_keys, user_index, 1,
                        [cache |-> cache,
                         resolved_user_ids |-> resolved_user_ids])
        member_ids == DictFromKeys(after.resolved_user_ids)
    IN  /\ cache' = after.cache
        /\ frame' = [frame EXCEPT
                       !.unresolved_keys = unresolved_keys,
                       !.resolved_user_ids = after.resolved_user_ids,
                       !.user_index = user_index,
                       !.member_ids = member_ids]
        /\ resolutions' = LastTwo(Append(resolutions,
                              Resolution(tr, cache, after.cache)))
        /\ pc' = IF member_ids = <<>> THEN "done" ELSE "post_broadcast"

\* lines 155-173: the references are split; with nothing left to look up
\* the resolver returns at once
ResolveStart ==
    /\ pc = "resolve"
    /\ LET split == Partition(refs, cache, 1,
                        [resolved_user_ids |-> <<>>, unresolved_keys |-> <<>>])
       IN  IF split.unresolved_keys # <<>>
           THEN /\ frame' = [frame EXCEPT
                               !.unresolved_keys = split.unresolved_keys,
                               !.resolved_user_ids = split.resolved_user_ids]
                /\ pc' = "users_list"
                /\ UNCHANGED <<cache, resolutions>>
           ELSE ResolveReturn(trace, split.unresolved_keys,
                              split.resolved_user_ids, EmptyDict)
    /\ UNCHANGED <<event, trace, refs, join, threads, directory>>

\* UsersList that, on an error, goes on with the index of the pages read
\* before it
UsersListKeepingPartialIndex ==
    /\ pc = "users_list"
    /\ \E resp \in CallResponses :
          LET response == UsersListPage(directory, frame.cursor)
              next_cursor == response.next_cursor
              user_index == IndexMembers(frame.user_index,
                                         response.members, 1)
              tr == Append(trace, UsersListCall(frame.cursor, resp))
          IN  /\ trace' = tr
              /\ IF resp.ok /\ next_cursor # 0
                 THEN /\ frame' = [frame EXCEPT !.user_index = user_index,
                                                !.cursor = next_cursor]
                      /\ pc' = "users_list"
                      /\ UNCHANGED <<cache, resolutions>>
                 ELSE ResolveReturn(tr, frame.unresolved_keys,
                                    frame.resolved_user_ids,
                                    IF resp.ok THEN user_index
                                    ELSE frame.user_index)
    /\ UNCHANGED <<event, refs, join, threads, directory>>

\* one pass of the loop of _build_workspace_user_index (lines 121-149): a
\* page is fetched and indexed; after the last page, or on an error, the
\* resolver goes on with the index (empty on an error)
UsersList ==
    /\ pc = "users_list"
    /\ \E resp \in CallResponses :
          LET response == UsersListPage(directory, frame.cursor)
              next_cursor == response.next_cursor
              user_index == IndexMembers(frame.user_index,
                                         response.members, 1)
              tr == Append(trace, UsersListCall(frame.cursor, resp))
          IN  /\ trace' = tr
              /\ IF resp.ok /\ next_cursor # 0
                 THEN /\ frame' = [frame EXCEPT !.user_index = user_index,
                                                !.cursor = next_cursor]
                      /\ pc' = "users_list"
                      /\ UNCHANGED <<cache, resolutions>>
                 ELSE ResolveReturn(tr, frame.unresolved_keys,
                                    frame.resolved_user_ids,
                                    IF resp.ok THEN user_index ELSE EmptyDict)
    /\ UNCHANGED <<event, refs, join, threads, directory>>

\* _build_mentions
RECURSIVE BuildMentions(_)
BuildMentions(user_ids) ==
    IF user_ids = <<>> THEN <<>>
    ELSE LET rest == BuildMentions(Tail(user_ids))
         IN  IF Head(user_ids) = <<>> THEN rest
             ELSE IF rest = <<>> THEN Mention(Head(user_ids))
             ELSE Mention(Head(user_ids)) \o <<" ">> \o rest

\* line 305
Area51Message(member_ids) ==
    Strip(BuildMentions(member_ids) \o <<" ">> \o AREA51_MESSAGE_TEXT)

\* line 306
PostBroadcast ==
    /\ pc = "post_broadcast"
    /\ \E resp \in CallResponses :
          trace' = Append(trace, PostMessageCall("area51", event.channel,
                                     Area51Message(frame.member_ids), resp))
    /\ pc' = "done"
    /\ UNCHANGED
          <<event, frame, cache, refs, join, threads, directory, resolutions>>

(***************************************************************************)
(* The handler returns; the platform changes the directory                 *)
(***************************************************************************)
Return ==
    /\ pc = "done"
    /\ pc' = "idle"
    /\ event' = NoEvent
    /\ trace' = <<>>
    /\ frame' = InitFrame
    /\ UNCHANGED <<cache, refs, join, threads, directory, resolutions>>

\* between two events members join, leave or rename themselves
DirectoryChange ==
    /\ pc = "idle"
    /\ \E d \in Directories \ {directory} : directory' = d
    /\ UNCHANGED
          <<pc, event, trace, frame, cache, refs, join, threads, resolutions>>

(***************************************************************************)
(* A join of the responder, for which the platform delivers both a         *)
(* member_joined_channel event and a channel_join system message: both     *)
(* handlers are registered (lines 263 and 269), and line 35 keeps the      *)
(* responder's own events from being dropped                               *)
(***************************************************************************)
\* no join is followed
NoJoin == [pending |-> <<>>, handled |-> 0, welcomes |-> 0, failed |-> 0]

\* the member_joined_channel event of the responder's join of C1
JoinedEvent ==
    [type |-> "member_joined_channel", subtype |-> "", text |-> <<>>,
     channel |-> "C1", user |-> OwnUserId, bot_id |-> <<>>]

\* the system message of the same join: its text is the usual one, or one
\* that also holds the mention trigger
JoinMessages ==
    [type : {"message"}, subtype : {"channel_join"},
     text : {TextJoined, TextJoinedArea51}, channel : {"C1"},
     user : {OwnUserId}, bot_id : {<<>>}]

\* the platform delivers the next event of the join: its handler starts
Deliver ==
    /\ pc = "idle"
    /\ join.pending # <<>>
    /\ event' = Head(join.pending)
    /\ trace' = <<>>
    /\ frame' = InitFrame
    /\ pc' = Start(Head(join.pending))
    /\ join' = [join EXCEPT !.pending = Tail(@)]
    /\ UNCHANGED <<cache, refs, directory, resolutions, threads>>

\* the handler of an event of the join returns: what it did is summed up
\* (the welcome texts it posted, the calls of it that failed)
JoinReturn ==
    /\ pc = "done"
    /\ join' = [join EXCEPT
                  !.handled = @ + 1,
                  !.welcomes = @ + Len(SelectSeq(trace, LAMBDA c :
                                    /\ c.api = "chat_postMessage"
                                    /\ c.text = WELCOME_TEXT
                                    /\ c.result = "")),
                  !.failed = @ + Len(SelectSeq(trace, LAMBDA c :
                                    c.api # "sleep" /\ c.result # ""))]
    /\ pc' = "idle"
    /\ event' = NoEvent
    /\ trace' = <<>>
    /\ frame' = InitFrame
    /\ UNCHANGED <<cache, refs, directory, resolutions, threads>>

(***************************************************************************)
(* _resolve_area51_member_ids called by handlers that run side by side:    *)
(* nothing locks AREA51_USER_ID_CACHE, so the calls interleave between any *)
(* two accesses of it                                                      *)
(***************************************************************************)
Threads == {1, 2}

\* the local variables of a call of the resolver; ids_by_name keeps, for
\* each name the call resolved, the id it appended for it
IdleThread ==
    [pc |-> "idle", i |-> 0, unresolved_keys |-> <<>>,
     resolved_user_ids |-> <<>>, user_index |-> EmptyDict, cursor |-> 0,
     member_ids |-> <<>>, ids_by_name |-> EmptyDict]

NoThreads == [t \in Threads |-> IdleThread]

\* a call that stands before the loop of line 158
StartedThread == [IdleThread EXCEPT !.pc = "read", !.i = 1]

\* lines 158-171, one pass of the loop: the reference at position i
ThreadRead(t) ==
    LET th             == threads[t]
        member_ref     == refs[th.i]
        normalized_ref == NormalizeUserKey(member_ref)
        cached_user_id == Get(cache, normalized_ref)
        split == Partition(<<member_ref>>, cache, 1,
                     [resolved_user_ids |-> th.resolved_user_ids,
                      unresolved_keys |-> th.unresolved_keys])
        is_cached_name == /\ normalized_ref # <<>>
                          /\ ~SlackUserIdMatch(member_ref)
                          /\ cached_user_id # <<>>
        last == th.i = Len(refs)
    IN  /\ th.pc = "read"
        /\ threads' = [threads EXCEPT ![t] = [th EXCEPT
              !.resolved_user_ids = split.resolved_user_ids,
              !.unresolved_keys = split.unresolved_keys,
              !.ids_by_name = IF is_cached_name
                              THEN Put(@, normalized_ref, cached_user_id)
                              ELSE @,
              !.i = IF last THEN 1 ELSE @ + 1,
              !.pc = IF ~last THEN "read"
                     ELSE IF split.unresolved_keys # <<>> THEN "scan"
                     ELSE "return"]]
        /\ UNCHANGED <<pc, event, trace, frame, cache, refs, directory,
                       resolutions, join>>

\* lines 121-149, one pass of the loop: a page is fetched and indexed
ThreadUsersList(t) ==
    LET th == threads[t]
    IN  /\ th.pc = "scan"
        /\ \E resp \in CallResponses :
              LET response == UsersListPage(directory, th.cursor)
                  next_cursor == response.next_cursor
                  user_index == IndexMembers(th.user_index,
                                             response.members, 1)
              IN  threads' = [threads EXCEPT ![t] =
                     IF resp.ok /\ next_cursor # 0
                     THEN [th EXCEPT !.user_index = user_index,
                                     !.cursor = next_cursor]
                     ELSE [th EXCEPT !.user_index = IF resp.ok THEN user_index
                                                    ELSE EmptyDict,
                                     !.pc = "write", !.i = 1]]
        /\ UNCHANGED <<pc, event, trace, frame, cache, refs, directory,
                       resolutions, join>>

\* lines 175-181, one pass of the loop: the unresolved key at position i
ThreadWrite(t) ==
    LET th             == threads[t]
        unresolved_key == th.unresolved_keys[th.i]
        resolved_user_id == Get(th.user_index, unresolved_key)
        after == Lookup(<<unresolved_key>>, th.user_index, 1,
                     [cache |-> cache,
                      resolved_user_ids |-> th.resolved_user_ids])
        last == th.i = Len(th.unresolved_keys)
    IN  /\ th.pc = "write"
        /\ cache' = after.cache
        /\ threads' = [threads EXCEPT ![t] = [th EXCEPT
              !.resolved_user_ids = after.resolved_user_ids,
              !.ids_by_name = IF resolved_user_id # <<>>
                              THEN Put(@, unresolved_key, resolved_user_id)
                              ELSE @,
              !.i = IF last THEN 1 ELSE @ + 1,
              !.pc = IF last THEN "return" ELSE "write"]]
        /\ UNCHANGED <<pc, event, trace, frame, refs, directory,
                       resolutions, join>>

\* line 184
ThreadReturn(t) ==
    LET th == threads[t]
    IN  /\ th.pc = "return"
        /\ threads' = [threads EXCEPT ![t] = [th EXCEPT
              !.member_ids = DictFromKeys(th.resolved_user_ids),
              !.pc = "returned"]]
        /\ UNCHANGED <<pc, event, trace, frame, cache, refs, directory,
                       resolutions, join>>

(***************************************************************************)
(* Specifications                                                          *)
(***************************************************************************)
InitCommon ==
    /\ pc = "idle"
    /\ event = NoEvent
    /\ trace = <<>>
    /\ frame = InitFrame
    /\ cache = EmptyDict
    /\ resolutions = <<>>

\* the program as configured, handling any event
Init ==
    /\ InitCommon
    /\ refs = AREA51_MEMBER_IDS
    /\ directory = DirectoryTwoPages
    /\ join = NoJoin
    /\ threads = NoThreads

Next ==
    \/ \E ev \in MessageEvents \cup MemberJoinedEvents : Receive(ev)
    \/ AuthTest
    \/ PostWelcome
    \/ PostSignOut
    \/ UsersInfo
    \/ CanvasesCreate
    \/ ConversationsInfo
    \/ CanvasesEdit
    \/ ReactionsAdd
    \/ PostConfirm
    \/ ResolveStart
    \/ UsersList
    \/ PostBroadcast
    \/ Return

Spec == Init /\ [][Next]_vars

\* the events that reach the resolver
MentionEvents ==
    [type : {"message"}, subtype : {""}, text : {TextArea51, TextArea51Save},
     channel : {"C1"}, user : {<<>>, OtherUserId}, bot_id : {<<>>}]

\* the resolver over any of the reference lists, the directory changing
\* between events
InitResolver ==
    /\ InitCommon
    /\ refs \in RefLists
    /\ directory \in Directories
    /\ join = NoJoin
    /\ threads = NoThreads

NextResolver ==
    \/ \E ev \in MentionEvents : Receive(ev)
    \/ ResolveStart
    \/ UsersList
    \/ PostBroadcast
    \/ Return
    \/ DirectoryChange

SpecResolver == InitResolver /\ [][NextResolver]_vars

\* one join of the responder: the platform delivers the two events of it,
\* in either order, and each is handled before the next is delivered
InitJoin ==
    /\ InitCommon
    /\ refs = AREA51_MEMBER_IDS
    /\ directory = DirectoryTwoPages
    /\ \E message \in JoinMessages :
          join \in {[NoJoin EXCEPT !.pending = <<JoinedEvent, message>>],
                    [NoJoin EXCEPT !.pending = <<message, JoinedEvent>>]}
    /\ threads = NoThreads

NextJoin ==
    \/ Deliver
    \/ AuthTest
    \/ PostWelcome
    \/ ResolveStart
    \/ UsersList
    \/ PostBroadcast
    \/ JoinReturn

SpecJoin == InitJoin /\ [][NextJoin]_vars

\* two handlers of mention-trigger events call the resolver side by side,
\* the directory changing at any time
InitConcurrent ==
    /\ InitCommon
    /\ refs \in {RefsIdAndName, RefsMixed}
    /\ directory \in Directories
    /\ join = NoJoin
    /\ threads = [t \in Threads |-> StartedThread]

NextConcurrent ==
    \/ \E t \in Threads : ThreadRead(t)
    \/ \E t \in Threads : ThreadUsersList(t)
    \/ \E t \in Threads : ThreadWrite(t)
    \/ \E t \in Threads : ThreadReturn(t)
    \/ DirectoryChange

SpecConcurrent == InitConcurrent /\ [][NextConcurrent]_vars

(***************************************************************************)
(* Properties                                                              *)
(***************************************************************************)
\* the outbound platform calls of the current event
OutboundCalls == SelectSeq(trace, LAMBDA c : c.api # "sleep")

IsPost(c, site) == c.api = "chat_postMessage" /\ c.site = site

NoDuplicates(seq) ==
    \A i, j \in DOMAIN seq : i # j => seq[i] # seq[j]

\* C1: while a message event of subtype bot_message is handled, no outbound
\* call is ever made, whatever its text, channel or user: the handler is
\* through with it at once.
C1_BotMessageNoCalls ==
    (event.type = "message" /\ event.subtype = "bot_message")
        => (pc = "done" /\ trace = <<>>)

\* a bot message in a channel whose text holds the sign-out phrase, the
\* mention trigger and the save flag has been handled
C1_Witness ==
    /\ pc = "done"
    /\ event.type = "message"
    /\ event.subtype = "bot_message"
    /\ event.channel # ""
    /\ event.text = TextSignOutArea51Save
    /\ trace = <<>>

\* the triggers whose action left a call in the trace; auth_test is the
\* join check, not yet the welcome
TriggersActed ==
    {trace[i].site : i \in {k \in DOMAIN trace : trace[k].api # "auth_test"}}

\* C2: a message event has the action of at most one of the four triggers
\* carried out: once the welcome was posted (or its post attempted), no
\* sign-out reply, broadcast or save call follows for that event.
C2_AtMostOneTrigger ==
    event.type = "message" => Cardinality(TriggersActed) <= 1

\* C3: in either handler, the welcome text is posted only after auth_test
\* answered and the joining id of the event (its user id, else its bot id)
\* is the user id or the bot id auth_test returned.
C3_WelcomeOnlyOnOwnJoin ==
    \A i \in DOMAIN trace :
        (trace[i].api = "chat_postMessage" /\ trace[i].text = WELCOME_TEXT)
            => /\ i > 1
               /\ trace[1].api = "auth_test"
               /\ trace[1].result = ""
               /\ JoinedMemberId(event) # <<>>
               /\ JoinedMemberId(event) \in
                      {trace[1].user_id, trace[1].bot_id} \ {<<>>}

\* the welcome went out for a join the event names by bot id only
C3_Witness ==
    /\ event.user = <<>>
    /\ event.bot_id = OwnBotId
    /\ \E i \in DOMAIN trace :
          /\ trace[i].api = "chat_postMessage"
          /\ trace[i].text = WELCOME_TEXT
          /\ trace[i].result = ""

HasSignOutPhrase(ev) ==
    ev.type = "message" /\ ev.subtype # "bot_message" /\ SignOutSearch(ev.text)

\* C4, as claimed: once a message event that is no bot_message and holds a
\* sign-out phrase is handled, exactly one outbound call was made, a post
\* to the event's channel that mentions the sender.
C4_Original ==
    (HasSignOutPhrase(event) /\ pc = "done")
        => /\ Len(OutboundCalls) = 1
           /\ IsPost(OutboundCalls[1], "sign_out")
           /\ OutboundCalls[1].channel = event.channel
           /\ Contains(OutboundCalls[1].text, Mention(event.user))

\* C4, amended: for a message event that is no bot_message and holds a
\* sign-out phrase, no call other than auth_test and chat_postMessage is
\* ever made, and at most one sign-out reply; if besides the event carries
\* a channel and is no join system message, the handler makes exactly one
\* outbound call, the reply to the event's channel, which mentions the
\* sender when the event carries a user id.
C4_SignOutReply ==
    HasSignOutPhrase(event) =>
        /\ \A i \in DOMAIN OutboundCalls :
              OutboundCalls[i].api \in {"auth_test", "chat_postMessage"}
        /\ Len(SelectSeq(trace, LAMBDA c : IsPost(c, "sign_out"))) <= 1
        /\ \A i \in DOMAIN trace :
              IsPost(trace[i], "area51") \/ IsPost(trace[i], "save") => FALSE
        /\ (event.channel # "" /\ ~IsJoinSystemMessage(event)) =>
              \/ pc = "post_sign_out" /\ trace = <<>>
              \/ /\ pc = "done"
                 /\ Len(trace) = 1
                 /\ IsPost(trace[1], "sign_out")
                 /\ trace[1].channel = event.channel
                 /\ event.user # <<>> =>
                        Contains(trace[1].text, Mention(event.user))

\* the reply went out for a text that also holds the mention trigger and
\* the save flag
C4_Witness ==
    /\ pc = "done"
    /\ HasSignOutPhrase(event)
    /\ ~IsJoinSystemMessage(event)
    /\ Area51Search(event.text)
    /\ SaveFlagSearch(event.text)
    /\ event.user = OtherUserId
    /\ Len(trace) = 1
    /\ IsPost(trace[1], "sign_out")
    /\ Contains(trace[1].text, Mention(OtherUserId))

\* C5: a reaction or a save confirmation is in the trace only after a
\* document edit of the same event that succeeded, made with a usable id;
\* so with no id resolved, or the creation or the edit failed, neither is
\* ever issued.
C5_ReactAndConfirmAfterEdit ==
    \A i \in DOMAIN trace :
        (trace[i].api = "reactions_add" \/ IsPost(trace[i], "save"))
            => \E j \in 1..(i - 1) :
                  /\ trace[j].api = "canvases_edit"
                  /\ trace[j].result = ""
                  /\ CanvasIdMatch(trace[j].canvas_id)

\* the edit, the reaction and the confirmation were made, in this order
C5_Witness ==
    /\ pc = "done"
    /\ Len(trace) >= 3
    /\ trace[Len(trace) - 2].api = "canvases_edit"
    /\ trace[Len(trace) - 1].api = "reactions_add"
    /\ IsPost(trace[Len(trace)], "save")

\* C6: a message event whose text is empty once every save flag is removed
\* and the rest trimmed makes the handler do nothing: no outbound call at
\* all.
C6_BareFlagNoCalls ==
    (event.type = "message" /\ Strip(SaveFlagSub(event.text)) = <<>>)
        => (pc = "done" /\ trace = <<>>)

\* a message that holds flags and whitespace only has been handled
C6_Witness ==
    /\ pc = "done"
    /\ event.type = "message"
    /\ event.subtype = ""
    /\ event.channel # ""
    /\ event.text \in {TextSavedOnly, TextFlagsOnly}
    /\ trace = <<>>

\* the document edits made for the text "please --save this note" on behalf
\* of a user whose display name is D
EditsOfSaveByD ==
    IF event.text = TextSave /\ frame.saved_by = DisplayNameD
    THEN SelectSeq(trace, LAMBDA c : c.api = "canvases_edit")
    ELSE <<>>

EntryAsClaimed ==
    <<"-", " ", "S", "a", "v", "e", "d", " ", "b", "y", " ", "D", ":", " ",
      "p", "l", "e", "a", "s", "e", " ", "t", "h", "i", "s", " ", "n", "o",
      "t", "e">>

EntryAsBuilt ==
    <<"\n", "-", " ", "S", "a", "v", "e", "d", " ", "b", "y", " ", "D", ":",
      " ", "p", "l", "e", "a", "s", "e", " ", " ", "t", "h", "i", "s", " ",
      "n", "o", "t", "e">>

\* C7, as claimed: the markdown passed to the edit for "please --save this
\* note" by D is exactly "- Saved by D: please this note".
C7_Original ==
    \A i \in DOMAIN EditsOfSaveByD : EditsOfSaveByD[i].markdown = EntryAsClaimed

\* C7, amended: the markdown passed to the edit is exactly
\* "\n- Saved by D: please  this note": the flag substring is removed and
\* nothing else, so both spaces that stood around it remain, the text has
\* no leading or trailing whitespace, and the entry starts with a newline.
C7_EntryText ==
    \A i \in DOMAIN EditsOfSaveByD : EditsOfSaveByD[i].markdown = EntryAsBuilt

\* the edit was made for that text and that display name
C7_Witness ==
    /\ EditsOfSaveByD # <<>>
    /\ EditsOfSaveByD[1].result = ""
    /\ EditsOfSaveByD[1].markdown = EntryAsBuilt

\* the welcome posts and the sleeps of the current event, in order
WelcomeSteps ==
    SelectSeq(trace, LAMBDA c : c.site = "welcome" /\ c.api # "auth_test")

WelcomePosts == SelectSeq(trace, LAMBDA c : IsPost(c, "welcome"))

\* _post_welcome_with_retry was called and has returned
NotifierReturned == frame.attempt >= 1 /\ frame.welcomed # "unset"

\* every attempt failed with a retryable code and no Retry-After
AllAttemptsRetryableNoHint ==
    \A i \in DOMAIN WelcomePosts :
        /\ WelcomePosts[i].result \in retryable_errors
        /\ WelcomePosts[i].retry_after = <<>>

\* C8: when the notifier has returned and every attempt failed with a
\* retryable code and no server-suggested wait, it made exactly 4 posts,
\* slept 1 s, 2 s and 3 s before the 2nd, 3rd and 4th (and not after the
\* 4th), and returned false.
C8_FourAttemptsLinearBackoff ==
    (NotifierReturned /\ AllAttemptsRetryableNoHint) =>
        /\ Len(WelcomePosts) = 4
        /\ Len(WelcomeSteps) = 7
        /\ \A k \in 1..4 : WelcomeSteps[2 * k - 1].api = "chat_postMessage"
        /\ \A k \in 1..3 :
              /\ WelcomeSteps[2 * k].api = "sleep"
              /\ WelcomeSteps[2 * k].seconds = k
        /\ frame.welcomed = "false"

\* the failures of the spec's example: two rate limits, an internal error,
\* then not_in_channel
C8_Witness ==
    /\ NotifierReturned
    /\ AllAttemptsRetryableNoHint
    /\ Len(WelcomePosts) = 4
    /\ WelcomePosts[1].result = "ratelimited"
    /\ WelcomePosts[2].result = "ratelimited"
    /\ WelcomePosts[3].result = "internal_error"
    /\ WelcomePosts[4].result = "not_in_channel"
    /\ frame.welcomed = "false"

\* C9, as claimed: of two consecutive calls of the resolver the first scans
\* the directory and the second does not.
C9_Original ==
    Len(resolutions) = 2 =>
        /\ resolutions[1].scans = 1
        /\ resolutions[2].scans = 0

\* C9, amended: a call of the resolver scans the directory (once) exactly
\* when some configured name has no cache entry as it starts; so of two
\* consecutive calls the second is a pure cache hit exactly when the first
\* left every configured name cached, and the two make exactly one scan in
\* total exactly when a name was uncached before the first call and its
\* scan found every uncached name.
C9_ScanIffUncached ==
    /\ \A i \in DOMAIN resolutions :
          (resolutions[i].scans = 1) <=> resolutions[i].uncached_before
    /\ Len(resolutions) = 2 =>
          /\ (resolutions[2].scans = 0) <=> ~resolutions[1].uncached_after
          /\ (resolutions[1].scans + resolutions[2].scans = 1)
                <=> (resolutions[1].uncached_before
                        /\ ~resolutions[1].uncached_after)

\* two calls in a row: the first scanned, the second did not
C9_Witness ==
    /\ Len(resolutions) = 2
    /\ resolutions[1].scans = 1
    /\ resolutions[2].scans = 0
    /\ cache # EmptyDict

\* C10: the list the resolver returns never holds a user id twice.
C10_NoDuplicateIds == NoDuplicates(frame.member_ids)

\* the resolver returned for a literal id and a name of the same member
C10_Witness ==
    /\ pc \in {"post_broadcast", "done"}
    /\ refs = RefsIdAndName
    /\ Len(frame.resolved_user_ids) = 2
    /\ frame.resolved_user_ids[1] = frame.resolved_user_ids[2]
    /\ Len(frame.member_ids) = 1

\* the id a configured reference stands for once the resolver has returned:
\* a literal id is itself, a name is what the cache holds for it (every name
\* the call resolved is in the cache by then), an empty reference is nothing
ResolvedId(member_ref) ==
    IF NormalizeUserKey(member_ref) = <<>> THEN <<>>
    ELSE IF SlackUserIdMatch(member_ref) THEN member_ref
    ELSE Get(cache, NormalizeUserKey(member_ref))

\* the position of the first configured reference that resolves to the id
FirstRef(user_id) ==
    CHOOSE k \in DOMAIN refs :
        /\ ResolvedId(refs[k]) = user_id
        /\ \A l \in 1..(k - 1) : ResolvedId(refs[l]) # user_id

\* C11: the ids the resolver returns stand in the order of the first
\* configured reference that resolves to each of them, whether that
\* reference is a literal id, a cached name or a name the scan resolved.
C11_ReferenceOrder ==
    \A i, j \in DOMAIN frame.member_ids :
        i < j => FirstRef(frame.member_ids[i]) < FirstRef(frame.member_ids[j])

KeyRumman == <<"r", "u", "m", "m", "a", "n">>

\* C12: whatever events are handled and however the directory changes, a
\* key of the identity cache is never removed and its user id never changes.
C12_CacheKeysStable ==
    [][\A k \in DOMAIN cache : k \in DOMAIN cache' /\ cache'[k] = cache[k]]_vars

\* the resolver has scanned a directory in which the name "rumman" belongs
\* to member U3, and the cache still holds U1 for it
C12_Witness ==
    /\ pc \in {"post_broadcast", "done"}
    /\ directory = DirectoryRenamed
    /\ UsersListCalls(trace) # <<>>
    /\ Get(frame.user_index, KeyRumman) = <<"U", "3">>
    /\ Get(cache, KeyRumman) = <<"U", "1">>

CallsOf(api) == SelectSeq(trace, LAMBDA c : c.api = api)

\* the handler has got as far as the save flow: the display name is set
\* (line 318) right before the document is asked for
InSaveFlow == frame.saved_by # <<>>

\* the handler is past _get_or_create_channel_canvas_id
PastCanvasLookup ==
    InSaveFlow /\ pc \in {"canvases_edit", "reactions_add", "post_confirm", "done"}

\* C13: in a save event the create call is issued exactly once, never a
\* second time; the channel metadata is read exactly once when the create
\* call failed with an "already exists" code, and not at all otherwise.
C13_CreateOnceInfoOnce ==
    /\ Len(CallsOf("conversations_canvases_create")) <= 1
    /\ Len(CallsOf("conversations_info")) <= 1
    /\ \A i \in DOMAIN trace :
          trace[i].api = "conversations_info" =>
              /\ i > 1
              /\ trace[i - 1].api = "conversations_canvases_create"
              /\ trace[i - 1].result \in AlreadyExistsErrors
    /\ PastCanvasLookup =>
          /\ Len(CallsOf("conversations_canvases_create")) = 1
          /\ Len(CallsOf("conversations_info")) =
                IF CallsOf("conversations_canvases_create")[1].result
                       \in AlreadyExistsErrors
                THEN 1 ELSE 0

\* creation answered already_exists, the metadata was read and the entry
\* appended to the document found there
C13_Witness ==
    /\ pc = "done"
    /\ Len(CallsOf("conversations_canvases_create")) = 1
    /\ CallsOf("conversations_canvases_create")[1].result = "already_exists"
    /\ Len(CallsOf("conversations_info")) = 1
    /\ Len(CallsOf("canvases_edit")) = 1

\* C14: _post_welcome_with_retry returns true exactly when an attempt
\* succeeded, and that attempt is its last; an attempt that is followed by
\* another one failed with a retryable code, was followed by a sleep, and
\* was not the 4th; a failure with any other code is the last step (no
\* sleep, no further attempt) and the return value is false.
C14_RetryOnlyOnRetryable ==
    /\ Len(WelcomePosts) <= max_attempts
    /\ Len(WelcomePosts) =
          IF pc = "post_welcome" THEN frame.attempt - 1 ELSE frame.attempt
    /\ NotifierReturned =>
          ((frame.welcomed = "true") <=>
              \E i \in DOMAIN WelcomePosts : WelcomePosts[i].result = "")
    /\ \A k \in DOMAIN WelcomeSteps :
          WelcomeSteps[k].api = "chat_postMessage" =>
              IF k < Len(WelcomeSteps)
              THEN /\ WelcomeSteps[k].result \in retryable_errors
                   /\ WelcomeSteps[k + 1].api = "sleep"
                   /\ (k + 1) \div 2 < max_attempts
              ELSE /\ NotifierReturned
                   /\ frame.welcomed =
                         IF WelcomeSteps[k].result = "" THEN "true" ELSE "false"
    /\ \A k \in DOMAIN WelcomeSteps :
          WelcomeSteps[k].api = "sleep" =>
              /\ k > 1
              /\ WelcomeSteps[k - 1].api = "chat_postMessage"
              /\ \/ k < Len(WelcomeSteps)
                 \/ pc = "post_welcome" /\ ~NotifierReturned

\* two retryable failures, then the third attempt succeeded
C14_Witness ==
    /\ NotifierReturned
    /\ frame.welcomed = "true"
    /\ Len(WelcomePosts) = 3
    /\ WelcomePosts[1].result = "request_timeout"
    /\ WelcomePosts[2].result = "channel_not_found"
    /\ WelcomePosts[3].result = ""
    /\ Len(WelcomeSteps) = 5

\* the literal ids among the references, and the ids the cache holds for
\* the names among them
LiteralAndCachedIds(member_refs, dict) ==
    {r \in Range(member_refs) :
        NormalizeUserKey(r) # <<>> /\ SlackUserIdMatch(r)}
    \cup {Get(dict, NormalizeUserKey(r)) : r \in
            {x \in Range(member_refs) :
                /\ NormalizeUserKey(x) # <<>>
                /\ ~SlackUserIdMatch(x)
                /\ Get(dict, NormalizeUserKey(x)) # <<>>}}

\* the step in which a page of the directory scan fails
ScanFails ==
    /\ pc = "users_list"
    /\ trace'[Len(trace')].api = "users_list"
    /\ trace'[Len(trace')].result # ""

\* C15: when a page of the directory scan fails, the first or a later one,
\* the resolver still returns (the handler goes on as after any return),
\* what it returns is exactly the literal ids and the ids of the names that
\* were cached before the call, each once, and the cache is left as it was.
C15_FailedScanKeepsCache ==
    [][ScanFails =>
          /\ cache' = cache
          /\ Range(frame'.member_ids) = LiteralAndCachedIds(refs, cache)
          /\ NoDuplicates(frame'.member_ids)
          /\ pc' = IF frame'.member_ids = <<>> THEN "done"
                   ELSE "post_broadcast"]_vars

\* the second page failed after the first, which held the name
\* "mehraz rumman", was read: the resolver returned the literal id and the
\* id cached for "rumman", and "mehraz rumman" is still not in the cache
C15_Witness ==
    /\ pc = "post_broadcast"
    /\ refs = RefsNamesAndId
    /\ Len(trace) = 2
    /\ trace[1].api = "users_list" /\ trace[1].result = ""
    /\ trace[2].api = "users_list" /\ trace[2].result # ""
    /\ DOMAIN cache = {KeyRumman}
    /\ frame.member_ids = << <<"U", "2">>, cache[KeyRumman] >>

\* the handler is through with a message event that it took to the mention
\* trigger: the resolver was called and has returned
MentionTriggerHandled ==
    /\ pc = "done"
    /\ event.type = "message"
    /\ Dispatch(event) = "resolve"
    /\ frame.welcomed # "true"

\* C16: for a message event that matches the mention trigger, the
\* broadcast is posted only if the resolver returned at least one id, and
\* its text holds a mention of every id returned; when the resolver
\* returned none, no post-message call at all was made for the event.
C16_BroadcastOnlyIfResolved ==
    /\ \A i \in DOMAIN trace :
          IsPost(trace[i], "area51") =>
              /\ frame.member_ids # <<>>
              /\ \A id \in Range(frame.member_ids) :
                    Contains(trace[i].text, Mention(id))
    /\ (MentionTriggerHandled /\ frame.member_ids = <<>>) =>
          \A i \in DOMAIN trace : trace[i].api # "chat_postMessage"

\* C17: a reaction call that fails, after the document edit succeeded, is
\* the last call of the event: no confirmation is posted, no document call
\* follows (the entry stays appended, once), and the handler is through.
C17_FailedReactionEndsSave ==
    \A i \in DOMAIN trace :
        (trace[i].api = "reactions_add" /\ trace[i].result # "") =>
            /\ i = Len(trace)
            /\ pc = "done"
            /\ trace[i - 1].api = "canvases_edit"
            /\ trace[i - 1].result = ""
            /\ Len(CallsOf("canvases_edit")) = 1
            /\ \A j \in DOMAIN trace : ~IsPost(trace[j], "save")

\* the edit succeeded and the reaction failed
C17_Witness ==
    /\ pc = "done"
    /\ Len(trace) >= 2
    /\ trace[Len(trace)].api = "reactions_add"
    /\ trace[Len(trace)].result # ""
    /\ trace[Len(trace) - 1].api = "canvases_edit"
    /\ trace[Len(trace) - 1].result = ""

DocumentApis ==
    {"conversations_canvases_create", "conversations_info", "canvases_edit"}

\* the document calls of the current event, in order
DocumentCalls == SelectSeq(trace, LAMBDA c : c.api \in DocumentApis)

\* the id a create call or a metadata read of the trace answered with
IdObtainedBy(c) ==
    IF c.api \in {"conversations_canvases_create", "conversations_info"}
           /\ c.result = ""
    THEN ExtractCanvasId(c.payload) ELSE <<>>

\* C18: in an event the document edit is issued at most once, with an id
\* of the expected shape that the document call right before it (the
\* create call, or the metadata read after it) answered with; no document
\* call is issued twice; and a create call or metadata read that gave no
\* well-formed id, or a failed edit, is followed by no edit and, but for
\* the one metadata read after an "already exists", by no document call.
C18_OneEditWithObtainedId ==
    /\ \A api \in DocumentApis : Len(CallsOf(api)) <= 1
    /\ \A i \in DOMAIN DocumentCalls :
          DocumentCalls[i].api = "canvases_edit" =>
              /\ i > 1
              /\ IdObtainedBy(DocumentCalls[i - 1]) = DocumentCalls[i].canvas_id
              /\ CanvasIdMatch(DocumentCalls[i].canvas_id)
    /\ \A i \in DOMAIN DocumentCalls :
          LET c == DocumentCalls[i]
              last == i = Len(DocumentCalls)
                          /\ pc \notin {"conversations_info", "canvases_edit"}
          IN  /\ (c.api = "canvases_edit" /\ c.result # "") =>
                    last /\ pc = "done"
              /\ (c.api = "conversations_info"
                     /\ ~CanvasIdMatch(IdObtainedBy(c))) => last /\ pc = "done"
              /\ (c.api = "conversations_canvases_create"
                     /\ ~CanvasIdMatch(IdObtainedBy(c))) =>
                    \/ last /\ pc = "done"
                    \/ /\ c.result \in AlreadyExistsErrors
                       /\ \/ i = Len(DocumentCalls) /\ pc = "conversations_info"
                          \/ /\ i < Len(DocumentCalls)
                             /\ DocumentCalls[i + 1].api = "conversations_info"

\* creation answered already_exists and the metadata held a malformed id:
\* the handler is through without an edit
C18_Witness ==
    /\ pc = "done"
    /\ Len(DocumentCalls) = 2
    /\ DocumentCalls[1].result = "already_exists"
    /\ DocumentCalls[2].api = "conversations_info"
    /\ DocumentCalls[2].result = ""
    /\ IdObtainedBy(DocumentCalls[2]) = MalformedCanvasId
    /\ trace[Len(trace)] = DocumentCalls[2]

\* both events of the join were handled and no call made for them failed
JoinHandledWithoutFailure ==
    /\ join.handled = 2
    /\ join.pending = <<>>
    /\ join.failed = 0

\* C19: when the platform delivers both a member_joined_channel event and
\* a channel_join system message for one join of the responder, and every
\* call succeeds, the welcome text is posted to the channel exactly once.
C19_WelcomeOncePerJoin ==
    JoinHandledWithoutFailure => join.welcomes = 1

\* the cache entries of a state are those of the next, unchanged
CacheEntriesKept ==
    \A k \in DOMAIN cache : k \in DOMAIN cache' /\ cache'[k] = cache[k]

\* the two calls resolved no name to different ids
ThreadsAgree ==
    \A k \in DOMAIN threads[1].ids_by_name \cap DOMAIN threads[2].ids_by_name :
        threads[1].ids_by_name[k] = threads[2].ids_by_name[k]

\* C20: with two resolver calls interleaved in any order and the directory
\* changing between their scans, the id cached for a key is still never
\* changed, and the two calls resolve the same name to the same id.
C20_ConcurrentCacheStable ==
    [][CacheEntriesKept]_vars /\ []ThreadsAgree

=============================================================================
